---- MODULE Spec2Model ----
(***************************************************************************)
(* simple_cors_proxy.py: a single-threaded HTTPServer whose handler        *)
(* CORSProxyHandler answers GET /proxy?url=<target> by fetching the target *)
(* with urllib and relaying the body, and answers OPTIONS with the CORS    *)
(* headers.                                                                *)
(*                                                                         *)
(* Text (request paths, URLs, messages) is a sequence of one-character     *)
(* strings; the token "U+FFFD" stands for the single character U+FFFD.     *)
(* The standard-library calls the handler makes (str.startswith,           *)
(* urllib.parse.parse_qs, urllib.request.Request, send_response,           *)
(* send_error, end_headers, wfile.write) are modelled by what CPython's    *)
(* implementation of them does at the call site named in the comment.      *)
(***************************************************************************)
EXTENDS Integers, Sequences, FiniteSets, TLC

(***************************************************************************)
(* Bounds of the model.                                                    *)
(***************************************************************************)
\* inbound connections over one run of Spec
MaxRequests == 1
\* inbound connections over one run of SeqSpec
MaxSeqRequests == 3
\* the wall clock reads 0..MaxClock
MaxClock == 1

(***************************************************************************)
(* Text helpers.                                                           *)
(***************************************************************************)
\* line 16: str.startswith
StartsWith(s, p) == Len(s) >= Len(p) /\ SubSeq(s, 1, Len(p)) = p

\* the prefix without its question mark
ProxyPrefixNoMark == <<"/", "p", "r", "o", "x", "y">>

\* line 16: the literal '/proxy?'
ProxyPrefix == <<"/", "p", "r", "o", "x", "y", "?">>

\* line 18: the slice index in self.path[7:]
QueryOffset == 7

\* line 18: self.path[7:]
QueryString(path) == SubSeq(path, QueryOffset + 1, Len(path))

\* position of the first occurrence of character c in s, 0 when absent
RECURSIVE IndexFrom(_, _, _)
IndexFrom(s, c, i) ==
    IF i > Len(s) THEN 0
    ELSE IF s[i] = c THEN i
    ELSE IndexFrom(s, c, i + 1)

\* line 19: qs.split('&') inside parse_qsl
RECURSIVE SplitAmp(_)
SplitAmp(s) ==
    LET i == IndexFrom(s, "&", 1)
    IN  IF i = 0 THEN <<s>>
        ELSE <<SubSeq(s, 1, i - 1)>> \o SplitAmp(SubSeq(s, i + 1, Len(s)))

\* line 19: the percent escapes of the request paths below, as unquote
\* decodes them. A byte below 0x80 is its ASCII character; the lone byte
\* 0xFF is not valid UTF-8 and decodes, with errors='replace', to U+FFFD.
HexDigits == {"0", "1", "2", "3", "4", "5", "6", "7", "8", "9",
              "A", "B", "C", "D", "E", "F"}

PercentByte(h, l) ==
    CASE h = "3" /\ l = "A" -> ":"
      [] h = "7" /\ l = "2" -> "r"
      [] h = "2" /\ l = "6" -> "&"
      [] h = "3" /\ l = "D" -> "="
      [] h = "F" /\ l = "F" -> "U+FFFD"
      [] OTHER -> "?"

\* line 19: urllib.parse.unquote, after '+' was replaced by ' '
RECURSIVE Unquote(_)
Unquote(s) ==
    IF s = <<>> THEN <<>>
    ELSE IF s[1] = "%" /\ Len(s) >= 3 /\ s[2] \in HexDigits /\ s[3] \in HexDigits
         THEN <<PercentByte(s[2], s[3])>> \o Unquote(SubSeq(s, 4, Len(s)))
    ELSE IF s[1] = "+" THEN <<" ">> \o Unquote(Tail(s))
    ELSE <<s[1]>> \o Unquote(Tail(s))

\* line 19: urllib.parse.parse_qsl with keep_blank_values=False and
\* strict_parsing=False: a field without '=' or with an empty value is
\* dropped; name and value are decoded separately.
RECURSIVE PairsOf(_)
PairsOf(fields) ==
    IF fields = <<>> THEN <<>>
    ELSE LET f  == Head(fields)
             eq == IndexFrom(f, "=", 1)
         IN  IF eq = 0 \/ eq = Len(f)
             THEN PairsOf(Tail(fields))
             ELSE <<[name  |-> Unquote(SubSeq(f, 1, eq - 1)),
                     value |-> Unquote(SubSeq(f, eq + 1, Len(f)))]>>
                  \o PairsOf(Tail(fields))

RECURSIVE ValuesOf(_, _)
ValuesOf(pairs, n) ==
    IF pairs = <<>> THEN <<>>
    ELSE (IF Head(pairs).name = n THEN <<Head(pairs).value>> ELSE <<>>)
         \o ValuesOf(Tail(pairs), n)

\* line 19: urllib.parse.parse_qs: a mapping from each name to the list of
\* its values, in the order of the query string
parse_qs(qs) ==
    LET pairs == PairsOf(SplitAmp(qs))
        names == {pairs[i].name : i \in DOMAIN pairs}
    IN  [n \in names |-> ValuesOf(pairs, n)]

UrlKey == <<"u", "r", "l">>

\* line 29: urllib.request.Request(target_url) raises ValueError("unknown url
\* type") unless the text starts with a scheme: one or more characters other
\* than '/' and ':' followed by ':'
HasScheme(url) ==
    \E i \in 2..Len(url) :
        /\ url[i] = ":"
        /\ \A j \in 1..(i - 1) : url[j] \notin {"/", ":"}

(***************************************************************************)
(* Requests, upstream answers and response text.                           *)
(***************************************************************************)
Proxy == <<"/", "p", "r", "o", "x", "y">>
UrlEq == <<"u", "r", "l", "=">>
TargetA == <<"h", ":", "a">>
TargetB == <<"h", ":", "b">>

\* request paths of GET requests
GetPaths ==
    { Proxy \o <<"?">> \o UrlEq \o TargetA,
      Proxy,
      Proxy \o <<"?">>,
      Proxy \o <<"?", "f", "=", "b">>,
      <<"/", "o">>,
      Proxy \o <<"x", "?">> \o UrlEq \o TargetA,
      Proxy \o <<"/", "?">> \o UrlEq \o TargetA,
      Proxy \o <<"?">> \o UrlEq \o TargetA \o <<"&">> \o UrlEq \o TargetB,
      Proxy \o <<"?">> \o UrlEq,
      Proxy \o <<"?">> \o UrlEq \o <<"&">> \o UrlEq \o TargetB,
      Proxy \o <<"?">> \o UrlEq \o <<"a">>,
      Proxy \o <<"?">> \o UrlEq \o <<"%", "F", "F">>,
      Proxy \o <<"?", "u", "%", "7", "2", "l", "=", "h", "%", "3", "A", "a">> }

\* request paths of OPTIONS requests
OptionsPaths == { Proxy, <<"*">>, Proxy \o <<"?">> \o UrlEq \o <<"a">> }

\* the headers a browser sends along; the handler never reads self.headers
CallerHeaders == << <<"Origin", "http://page">>, <<"Cookie", "k">> >>

\* caller "stays": the connection takes every write; "drops": the caller
\* may disconnect, and a write to the connection then raises OSError
Request(m, p, c) == [method |-> m, path |-> p, headers |-> CallerHeaders, caller |-> c]

Requests ==
    {Request("GET", p, c) : p \in GetPaths, c \in {"stays"}}
    \cup {Request("GET", p, "drops") :
            p \in {Proxy \o <<"?">> \o UrlEq \o TargetA, <<"/", "o">>}}
    \cup {Request("OPTIONS", p, c) : p \in OptionsPaths, c \in {"stays"}}
    \cup {Request("OPTIONS", Proxy, "drops")}

\* the requests of SeqSpec: callers that stay
SeqRequests ==
    {Request("GET", p, "stays") :
        p \in {Proxy \o <<"?">> \o UrlEq \o TargetA,
               Proxy \o <<"?">> \o UrlEq \o <<"%", "F", "F">>,
               <<"/", "o">>}}
    \cup {Request("OPTIONS", Proxy, "stays")}

NoRequest == [method |-> "", path |-> <<>>, headers |-> <<>>, caller |-> ""]

\* lines 32-33: what urlopen(req) and response.read() come back with: the
\* body of a 2xx answer, or an exception (HTTPError for a non-2xx status,
\* URLError for a refused connection or a failed lookup, an error of read())
Answer(k, st, ct, b, d) == [kind |-> k, status |-> st, ctype |-> ct, body |-> b, desc |-> d]

NoAnswer == Answer("none", 0, "", <<>>, <<>>)

UpstreamAnswers ==
    { Answer("ok", 200, "application/json", <<"{\"a\":1}">>, <<>>),
      Answer("ok", 201, "text/html", <<"<p>hi</p>">>, <<>>),
      Answer("fail", 404, "", <<>>, <<"HTTP Error 404: Not Found">>),
      Answer("fail", 0, "", <<>>, <<"<urlopen error [Errno 111] Connection refused>">>),
      Answer("fail", 0, "", <<>>, <<"<urlopen error [Errno -2] Name or service not known>">>),
      Answer("fail", 200, "", <<>>, <<"IncompleteRead(0 bytes read)">>) }

StatusLine(code, msg) == [t |-> "status", code |-> code, name |-> "", value |-> msg]
Header(n, v) == [t |-> "header", code |-> 0, name |-> n, value |-> v]

\* lines 36, 55 and inside send_error: BaseHTTPRequestHandler.send_response
\* buffers the status line, then the Server header and the Date header
send_response(code, msg, now) ==
    << StatusLine(code, msg),
       Header("Server", <<"BaseHTTP">>),
       Header("Date", <<ToString(now)>>) >>

\* lines 37-39 and 56-58
CorsHeaders ==
    << Header("Access-Control-Allow-Origin", <<"*">>),
       Header("Access-Control-Allow-Methods", <<"GET, POST, OPTIONS">>),
       Header("Access-Control-Allow-Headers", <<"Content-Type">>) >>

\* the head of a relayed answer that passes the upstream's content type on
RelayHeadUpstreamType(a, now) ==
    send_response(200, <<"OK">>, now) \o CorsHeaders
        \o <<Header("Content-Type", <<a.ctype>>)>>

\* lines 36-40: the head of a relayed answer; the upstream's own status and
\* content type are not looked at
RelayHead(a, now) ==
    send_response(200, <<"OK">>, now) \o CorsHeaders
        \o <<Header("Content-Type", <<"application/json">>)>>


\* the head of do_GET, Content-Type included, copied into do_OPTIONS
OptionsHeadWithType(now) ==
    send_response(200, <<"OK">>, now) \o CorsHeaders
        \o <<Header("Content-Type", <<"application/json">>)>>

\* lines 55-58
OptionsHead(now) == send_response(200, <<"OK">>, now) \o CorsHeaders

\* lines 22, 47, 51: BaseHTTPRequestHandler.send_error buffers the status
\* line with the message as reason phrase and the headers of an HTML page
ErrorHead(code, msg, now) ==
    send_response(code, msg, now)
        \o << Header("Connection", <<"close">>),
              Header("Content-Type", <<"text/html;charset=utf-8">>),
              Header("Content-Length", <<"len(page)">>) >>

ErrorPage(code, msg) == <<"<html>", ToString(code)>> \o msg \o <<"</html>">>

\* send_response_only encodes the status line with
\* .encode('latin-1', 'strict'): U+FFFD has no Latin-1 encoding
Latin1(msg) == \A i \in DOMAIN msg : msg[i] # "U+FFFD"

\* line 30
UserAgent == <<"User-Agent", "Mozilla/5.0 (Windows NT 10.0; Win64; x64) AppleWebKit/537.36">>

\* line 51: f"Proxy Error: {str(e)}"
ProxyError(desc) == <<"Proxy Error: ">> \o desc

\* line 29: str(ValueError("unknown url type: %r" % url)); repr keeps a
\* printable character such as U+FFFD as it is
UnknownUrlType(url) == <<"unknown url type: ", "'">> \o url \o <<"'">>

\* params['url'][-1]: the last value instead of the first
TargetUrlLast(params) == params[UrlKey][Len(params[UrlKey])]

\* line 25: params['url'][0]
TargetUrl(params) == params[UrlKey][1]

\* lines 29-30: the request handed to urlopen
OutboundRequest(url, req) == [method |-> "GET", url |-> url, headers |-> <<UserAgent>>]

(***************************************************************************)
(* State.                                                                  *)
(***************************************************************************)
VARIABLES
    clock,      \* the wall clock send_response reads for the Date header
    queue,      \* connections accepted by the listening socket, not yet handled
    accepted,   \* how many connections have arrived
    pc,         \* where the one serving thread is: "idle", "urlopen", "write"
    cur,        \* the request being handled
    inTry,      \* the handler is inside the try of lines 14-47
    hdrBuf,     \* the handler's _headers_buffer: lines not yet flushed
    todo,       \* the writes the handler still has to make
    wire,       \* the writes made to the caller's connection, with their outcome
    outbound,   \* the requests handed to urlopen for the current request
    up,         \* what urlopen came back with for the current request
    excs,       \* the exceptions raised while handling the current request
    log         \* the handled requests, in the order they were handled

vars == <<clock, queue, accepted, pc, cur, inTry, hdrBuf, todo, wire,
          outbound, up, excs, log>>

Exc(at, desc) == [at |-> at, desc |-> desc]

\* a buffer shared by the handler objects that still holds the bytes of the
\* answer relayed just before
RelayBodyShared(a) ==
    (IF log # <<>> /\ log[Len(log)].up.kind = "ok"
     THEN log[Len(log)].up.body ELSE <<>>) \o a.body

\* line 44: the bytes written after the head
RelayBody(a) == a.body

Flush == [op |-> "flush", data |-> <<>>]
Body(d) == [op |-> "body", data |-> d]

\* the handler goes on with the writes `ops`
Planned(buf, ops, try, ex) ==
    [hdrBuf |-> buf, todo |-> ops, inTry |-> try, crashed |-> FALSE, excs |-> ex]

\* an exception leaves do_GET / do_OPTIONS
Crashed(ex) ==
    [hdrBuf |-> <<>>, todo |-> <<>>, inTry |-> FALSE, crashed |-> TRUE, excs |-> ex]

\* lines 22, 47, 51: send_error buffers the head, end_headers() flushes it,
\* then the page is written
send_error(code, msg, buf, try, ex, now) ==
    Planned(buf \o ErrorHead(code, msg, now),
            <<Flush, Body(ErrorPage(code, msg))>>, try, ex)

\* lines 49-51: the except clause. send_error(500, ...) runs outside the
\* try: when the status line cannot be encoded, UnicodeEncodeError leaves
\* do_GET
Except(e, buf, ex, now) ==
    IF Latin1(ProxyError(e.desc))
    THEN send_error(500, ProxyError(e.desc), buf, FALSE, Append(ex, e), now)
    ELSE Crashed(Append(Append(ex, e), Exc("send_error", <<"UnicodeEncodeError">>)))

\* an exception raised at some point of the handler
Raise(e, try, buf, ex, now) ==
    IF try THEN Except(e, buf, ex, now) ELSE Crashed(Append(ex, e))

Plan(step, code, msg, url) == [step |-> step, code |-> code, msg |-> msg, url |-> url]

\* do_GET that tests startswith('/proxy'), without the question mark
do_GET_LoosePrefix(path) ==
    IF StartsWith(path, Proxy)
    THEN LET params == parse_qs(QueryString(path))
         IN  IF UrlKey \notin DOMAIN params
             THEN Plan("send_error", 400, <<"Missing 'url' parameter">>, <<>>)
             ELSE LET target_url == TargetUrl(params)
                  IN  IF HasScheme(target_url)
                      THEN Plan("urlopen", 0, <<>>, target_url)
                      ELSE Plan("raise", 0, UnknownUrlType(target_url), target_url)
    ELSE Plan("send_error", 404, <<"Not Found">>, <<>>)

\* do_GET without the test of line 21: params['url'] raises KeyError
do_GET_NoUrlCheck(path) ==
    IF StartsWith(path, ProxyPrefix)
    THEN LET params == parse_qs(QueryString(path))
         IN  IF UrlKey \notin DOMAIN params
             THEN Plan("raise", 0, <<"'url'">>, <<>>)
             ELSE LET target_url == TargetUrl(params)
                  IN  IF HasScheme(target_url)
                      THEN Plan("urlopen", 0, <<>>, target_url)
                      ELSE Plan("raise", 0, UnknownUrlType(target_url), target_url)
    ELSE Plan("send_error", 404, <<"Not Found">>, <<>>)

\* lines 14-32: do_GET up to the call of urlopen
do_GET(path) ==
    IF StartsWith(path, ProxyPrefix)
    THEN LET params == parse_qs(QueryString(path))
         IN  IF UrlKey \notin DOMAIN params
             THEN Plan("send_error", 400, <<"Missing 'url' parameter">>, <<>>)
             ELSE LET target_url == TargetUrl(params)
                  IN  IF HasScheme(target_url)
                      THEN Plan("urlopen", 0, <<>>, target_url)
                      ELSE Plan("raise", 0, UnknownUrlType(target_url), target_url)
    ELSE Plan("send_error", 404, <<"Not Found">>, <<>>)

Entry(r, a, ob, w, h) ==
    [req |-> r, up |-> a, outbound |-> ob, wire |-> w,
     crashed |-> h.crashed, excs |-> h.excs]

\* the handler goes on to its next write, or returns (or crashes) and the
\* connection is closed: each request gets a handler object of its own
Continue(r, a, ob, w, h) ==
    IF h.crashed \/ h.todo = <<>>
    THEN /\ log' = Append(log, Entry(r, a, ob, w, h))
         /\ pc' = "idle"
         /\ cur' = NoRequest
         /\ inTry' = FALSE
         /\ hdrBuf' = <<>>
         /\ todo' = <<>>
         /\ wire' = <<>>
         /\ outbound' = <<>>
         /\ up' = NoAnswer
         /\ excs' = <<>>
    ELSE /\ log' = log
         /\ pc' = "write"
         /\ cur' = r
         /\ inTry' = h.inTry
         /\ hdrBuf' = h.hdrBuf
         /\ todo' = h.todo
         /\ wire' = w
         /\ outbound' = ob
         /\ up' = a
         /\ excs' = h.excs

Init ==
    /\ clock = 0
    /\ queue = <<>>
    /\ accepted = 0
    /\ pc = "idle"
    /\ cur = NoRequest
    /\ inTry = FALSE
    /\ hdrBuf = <<>>
    /\ todo = <<>>
    /\ wire = <<>>
    /\ outbound = <<>>
    /\ up = NoAnswer
    /\ excs = <<>>
    /\ log = <<>>

(***************************************************************************)
(* Actions.                                                                *)
(***************************************************************************)
\* time passes
Tick ==
    /\ clock < MaxClock
    /\ clock' = clock + 1
    /\ UNCHANGED <<queue, accepted, pc, cur, inTry, hdrBuf, todo, wire,
                   outbound, up, excs, log>>

\* line 62: a caller connects; the listening socket queues the connection
Accept(reqs, max) ==
    /\ accepted < max
    /\ \E r \in reqs : queue' = Append(queue, r)
    /\ accepted' = accepted + 1
    /\ UNCHANGED <<clock, pc, cur, inTry, hdrBuf, todo, wire, outbound, up,
                   excs, log>>

\* line 65: serve_forever takes the next connection only when the handler
\* of the previous one has returned; lines 13-32 and 53-59
StartRequest ==
    /\ pc = "idle"
    /\ queue # <<>>
    /\ queue' = Tail(queue)
    /\ LET r == Head(queue)
           p == do_GET(r.path)
       IN  IF r.method = "OPTIONS"
           THEN Continue(r, NoAnswer, <<>>, <<>>,
                         Planned(OptionsHead(clock), <<Flush>>, FALSE, <<>>))
           ELSE IF p.step = "urlopen"
           THEN /\ pc' = "urlopen"
                /\ cur' = r
                /\ inTry' = TRUE
                /\ outbound' = <<OutboundRequest(p.url, r)>>
                /\ UNCHANGED <<hdrBuf, todo, wire, up, excs, log>>
           ELSE IF p.step = "raise"
           THEN Continue(r, NoAnswer, <<>>, <<>>,
                         Raise(Exc("Request", p.msg), TRUE, <<>>, <<>>, clock))
           ELSE Continue(r, NoAnswer, <<>>, <<>>,
                         send_error(p.code, p.msg, <<>>, TRUE, <<>>, clock))
    /\ UNCHANGED <<clock, accepted>>

\* lines 32-40: urlopen and read come back, with the body or an exception
UrlopenReturns ==
    /\ pc = "urlopen"
    /\ \E a \in UpstreamAnswers :
         Continue(cur, a, outbound, wire,
                  IF a.kind = "ok"
                  THEN Planned(RelayHead(a, clock), <<Flush, Body(RelayBody(a))>>,
                               TRUE, excs)
                  ELSE Raise(Exc("urlopen", a.desc), inTry, hdrBuf, excs, clock))
    /\ UNCHANGED <<clock, queue, accepted>>

\* how a write to the caller's connection can end: a caller that stays
\* takes it; otherwise the connection may break at any write, and a broken
\* connection stays broken
WriteOutcomes(r, w) ==
    IF r.caller = "stays" THEN {TRUE}
    ELSE IF \E i \in DOMAIN w : ~w[i].ok THEN {FALSE}
    ELSE BOOLEAN

\* lines 41, 44, 59 and inside send_error: one write to the caller's
\* connection. A failed flush leaves _headers_buffer as it was.
Write ==
    /\ pc = "write"
    /\ todo # <<>>
    /\ \E ok \in WriteOutcomes(cur, wire) :
         LET op == Head(todo)
             item == [kind |-> op.op,
                      lines |-> IF op.op = "flush" THEN hdrBuf ELSE <<>>,
                      data |-> op.data,
                      ok |-> ok]
         IN  Continue(cur, up, outbound, Append(wire, item),
                      IF ok
                      THEN Planned(IF op.op = "flush" THEN <<>> ELSE hdrBuf,
                                   Tail(todo), inTry, excs)
                      ELSE Raise(Exc("write", <<"[Errno 32] Broken pipe">>),
                                 inTry, hdrBuf, excs, clock))
    /\ UNCHANGED <<clock, queue, accepted>>

Next ==
    \/ Tick
    \/ Accept(Requests, MaxRequests)
    \/ StartRequest
    \/ UrlopenReturns
    \/ Write

Spec == Init /\ [][Next]_vars

SeqNext ==
    \/ Tick
    \/ Accept(SeqRequests, MaxSeqRequests)
    \/ StartRequest
    \/ UrlopenReturns
    \/ Write

SeqSpec == Init /\ [][SeqNext]_vars

(***************************************************************************)
(* What a handled request looks like from the caller's side.               *)
(***************************************************************************)
Range(f) == {f[i] : i \in DOMAIN f}

Handled == Range(log)

IsGet(e) == e.req.method = "GET"
IsOptions(e) == e.req.method = "OPTIONS"
ProxyGet(e) == IsGet(e) /\ StartsWith(e.req.path, ProxyPrefix)
Params(e) == parse_qs(QueryString(e.req.path))
HasUrl(e) == ProxyGet(e) /\ UrlKey \in DOMAIN Params(e)

\* the caller's connection took every write the handler made
Delivered(e) == \A i \in DOMAIN e.wire : e.wire[i].ok

IsStatus(l) == l.t = "status"
IsHeader(l) == l.t = "header"

\* every line written to the connection, delivered or not, in order
RECURSIVE LinesWritten(_)
LinesWritten(w) == IF w = <<>> THEN <<>> ELSE Head(w).lines \o LinesWritten(Tail(w))

StatusWritten(e) == SelectSeq(LinesWritten(e.wire), IsStatus)

\* the caller got one response: one status line, with this code, leading
\* the head
Answers(e, code) ==
    /\ ~e.crashed
    /\ e.wire # <<>>
    /\ Delivered(e)
    /\ e.wire[1].kind = "flush"
    /\ Len(StatusWritten(e)) = 1
    /\ IsStatus(e.wire[1].lines[1])
    /\ e.wire[1].lines[1].code = code

HeadersOf(e) == SelectSeq(e.wire[1].lines, IsHeader)

NoOutbound(e) == e.outbound = <<>> /\ e.up = NoAnswer

(***************************************************************************)
(* C1: a GET on '/proxy?' with a 'url' key whose fetch comes back with a   *)
(* body is answered, on a connection that takes the writes, with status    *)
(* 200, the three CORS headers, Content-Type: application/json as the only *)
(* content type, and exactly the upstream's body, whatever the upstream's  *)
(* content type or 2xx status.                                             *)
(***************************************************************************)
C1_RelaysBodyAsJson ==
    \A e \in Handled :
        (HasUrl(e) /\ e.up.kind = "ok" /\ Delivered(e)) =>
            /\ Answers(e, 200)
            /\ \A i \in DOMAIN CorsHeaders : CorsHeaders[i] \in Range(HeadersOf(e))
            /\ \A h \in Range(HeadersOf(e)) :
                   h.name = "Content-Type" => h.value = <<"application/json">>
            /\ \E h \in Range(HeadersOf(e)) : h.name = "Content-Type"
            /\ Len(e.wire) = 2
            /\ e.wire[2].kind = "body"
            /\ e.wire[2].data = e.up.body

C1_Witness ==
    \E e \in Handled :
        /\ HasUrl(e) /\ Delivered(e)
        /\ e.up.kind = "ok" /\ e.up.status = 201 /\ e.up.ctype = "text/html"
        /\ Answers(e, 200)
        /\ e.wire[2].data = <<"<p>hi</p>">>

(***************************************************************************)
(* C2, as claimed: GET '/proxy' with no query string is answered with 400. *)
(***************************************************************************)
C2_BareProxyIs400 ==
    \A e \in Handled :
        (IsGet(e) /\ e.req.path = Proxy /\ Delivered(e)) => Answers(e, 400)

(***************************************************************************)
(* C2, amended: GET '/proxy' with no query string does not begin with      *)
(* '/proxy?' and is answered with 404, with no fetch.                      *)
(***************************************************************************)
C2_BareProxyIs404 ==
    \A e \in Handled :
        (IsGet(e) /\ e.req.path = Proxy /\ Delivered(e)) =>
            Answers(e, 404) /\ NoOutbound(e)

C2_Witness ==
    \E e \in Handled :
        IsGet(e) /\ e.req.path = Proxy /\ Delivered(e) /\ Answers(e, 404)

(***************************************************************************)
(* C3: a GET whose path does not begin with '/proxy?' makes no outbound    *)
(* request and, on a connection that takes the writes, is answered with    *)
(* 404.                                                                    *)
(***************************************************************************)
C3_OtherPathIs404 ==
    \A e \in Handled :
        (IsGet(e) /\ ~StartsWith(e.req.path, ProxyPrefix)) =>
            /\ NoOutbound(e)
            /\ Delivered(e) => Answers(e, 404)

C3_Witness ==
    \E e \in Handled :
        /\ IsGet(e)
        /\ e.req.path = Proxy \o <<"x", "?">> \o UrlEq \o TargetA
        /\ Delivered(e) /\ Answers(e, 404) /\ NoOutbound(e)

(***************************************************************************)
(* C4: a GET on '/proxy?' whose decoded query has no 'url' key makes no    *)
(* outbound request and, on a connection that takes the writes, is         *)
(* answered with 400.                                                      *)
(***************************************************************************)
C4_MissingUrlIs400 ==
    \A e \in Handled :
        (ProxyGet(e) /\ ~HasUrl(e)) =>
            /\ NoOutbound(e)
            /\ Delivered(e) => Answers(e, 400)

C4_Witness ==
    \E e \in Handled :
        /\ e.req.path = Proxy \o <<"?", "f", "=", "b">>
        /\ ProxyGet(e) /\ ~HasUrl(e)
        /\ Delivered(e) /\ Answers(e, 400) /\ NoOutbound(e)

(***************************************************************************)
(* C5, as claimed: a failure raised while building the outbound request,   *)
(* connecting or reading never leaves do_GET; the caller gets status 500   *)
(* with the failure's description in the message, and no other status.     *)
(***************************************************************************)
FetchFailure(e) == e.excs # <<>> /\ e.excs[1].at \in {"Request", "urlopen"}

C5_FailureIs500 ==
    \A e \in Handled :
        (IsGet(e) /\ FetchFailure(e) /\ Delivered(e)) =>
            /\ Answers(e, 500)
            /\ e.wire[1].lines[1].value = ProxyError(e.excs[1].desc)

(***************************************************************************)
(* C6, as claimed: OPTIONS is answered with 200 and exactly the three CORS *)
(* headers.                                                                *)
(***************************************************************************)
C6_ExactlyThreeHeaders ==
    \A e \in Handled :
        (IsOptions(e) /\ Delivered(e)) =>
            Answers(e, 200) /\ HeadersOf(e) = CorsHeaders

(***************************************************************************)
(* C6, amended: every OPTIONS request, on any path, makes no outbound call *)
(* and is answered with 200, no body, and exactly five headers: the Server *)
(* and Date headers send_response puts on every response, then the three  *)
(* CORS headers.                                                           *)
(***************************************************************************)
C6_ServerDateAndThreeHeaders ==
    \A e \in Handled :
        IsOptions(e) =>
            /\ NoOutbound(e)
            /\ Delivered(e) =>
                 /\ Answers(e, 200)
                 /\ Len(e.wire) = 1
                 /\ Len(HeadersOf(e)) = 5
                 /\ HeadersOf(e)[1].name = "Server"
                 /\ HeadersOf(e)[2].name = "Date"
                 /\ SubSeq(HeadersOf(e), 3, 5) = CorsHeaders

C6_Witness ==
    \E e \in Handled :
        /\ IsOptions(e) /\ e.req.path = <<"*">>
        /\ Delivered(e) /\ Answers(e, 200) /\ Len(e.wire) = 1
        /\ SubSeq(HeadersOf(e), 3, 5) = CorsHeaders

(***************************************************************************)
(* C7, as claimed: a GET on '/proxy?' with a 'url' key issues a single     *)
(* outbound GET, to the first 'url' value, with the fixed User-Agent.      *)
(***************************************************************************)
FetchOf(e) ==
    [method |-> "GET", url |-> Params(e)[UrlKey][1], headers |-> <<UserAgent>>]

SameCase(d, e) == d.req = e.req /\ d.up = e.up

C8_IdenticalResponse ==
    \A i, j \in DOMAIN log : SameCase(log[i], log[j]) => log[i] = log[j]

(***************************************************************************)
(* C8, amended: the same request with the same upstream answer gets the    *)
(* same response, whatever was handled before, except for the value of the *)
(* Date header, which is the time of the response.                         *)
(***************************************************************************)
Undated(l) == IF l.name = "Date" THEN [l EXCEPT !.value = <<>>] ELSE l

UndatedItem(it) == [it EXCEPT !.lines = [k \in DOMAIN it.lines |-> Undated(it.lines[k])]]

UndatedEntry(e) == [e EXCEPT !.wire = [k \in DOMAIN e.wire |-> UndatedItem(e.wire[k])]]

C8_SameApartFromDate ==
    \A i, j \in DOMAIN log :
        SameCase(log[i], log[j]) => UndatedEntry(log[i]) = UndatedEntry(log[j])

C8_Witness ==
    /\ Len(log) = 3
    /\ HasUrl(log[1]) /\ log[1].up.kind = "ok" /\ Answers(log[1], 200)
    /\ SameCase(log[1], log[3])
    /\ log[2].req # log[1].req
    /\ log[3] # log[1]
    /\ UndatedEntry(log[3]) = UndatedEntry(log[1])

(***************************************************************************)
(* C9, as claimed: requests are handled one at a time and nothing else is  *)
(* answered while a GET waits in urlopen (C9_OneAtATime); when every fetch *)
(* completes or fails, every accepted request receives a response: every   *)
(* request the handler is through with, from a caller that stayed          *)
(* connected, has been sent a response (C9_HandledWereAnswered).           *)
(***************************************************************************)
GotResponse(e) == e.wire # <<>> /\ e.wire[1].ok /\ e.wire[1].kind = "flush"

C9_OneAtATime ==
    [][pc = "urlopen" =>
          \/ log' = log /\ wire' = wire
          \/ /\ Len(log') = Len(log) + 1
             /\ log'[Len(log')].req = cur
             /\ SubSeq(log', 1, Len(log)) = log]_vars

C9_HandledWereAnswered == \A e \in Handled : GotResponse(e)

(***************************************************************************)
(* C10, as claimed: a handled GET that sent anything to the caller sent    *)
(* exactly one status line, with status 200, 400, 404 or 500; and no 500   *)
(* status line is written once the head of a 200 response has been sent.   *)
(***************************************************************************)
RECURSIVE LinesSent(_)
LinesSent(w) ==
    IF w = <<>> THEN <<>>
    ELSE (IF Head(w).ok THEN Head(w).lines ELSE <<>>) \o LinesSent(Tail(w))

StatusSent(e) == SelectSeq(LinesSent(e.wire), IsStatus)

C10_No500After200 ==
    \A e \in Handled :
        (IsGet(e) /\ e.wire # <<>> /\ e.wire[1].ok) =>
            /\ Len(StatusSent(e)) = 1
            /\ StatusSent(e)[1].code \in {200, 400, 404, 500}
            /\ StatusSent(e)[1].code = 200 =>
                   \A l \in Range(StatusWritten(e)) : l.code # 500

====
